---- MODULE Spec2Model ----
(***************************************************************************)
(* Model of virtual_device.py: VirtualDevice (start / stop / _run), the    *)
(* SmartSwitch generator state, MQTTVirtualDeviceManager (connect,         *)
(* add_device, start_all_devices, stop_all_devices, disconnect) and the    *)
(* three client callbacks installed by setup_mqtt.                         *)
(*                                                                         *)
(* One control thread issues the calls (the registry and the lifecycle     *)
(* calls are used from a single thread); every threading.Thread created by *)
(* start() is a separate process that steps through _run.                  *)
(***************************************************************************)
EXTENDS Naturals, Sequences, FiniteSets

\* ------------------------------------------------------------------ bounds
\* Threads created by start() that are inside _run at the same time.
MaxThreads == 2
\* Length of the manager's registry list.
MaxDevices == 2
\* Exceptions raised inside ticks (generation or publish) in one run.
MaxFailures == 1

\* ------------------------------------------------------------ fixed inputs
\* The Device objects that exist (constructed, not necessarily registered).
Dev == {"d1", "d2"}
NoDev == "none"
\* device_id and device_type given to the constructors (lines 255, 260, 65, 136).
device_id == [d \in Dev |-> IF d = "d1" THEN "smart_switch_001" ELSE "temp_sensor_001"]
device_type == [d \in Dev |-> IF d = "d1" THEN "smart_switch" ELSE "temperature_humidity"]
\* round(random.uniform(5, 100), 2), in hundredths of a watt: both ends of the range.
PowerDraws == {500, 10000}

Threads == 1..MaxThreads
\* self.thread: None (0), a Thread inside _run (its number), or a Thread that
\* has left _run.
NoThread == 0
Finished == MaxThreads + 1

\* Control topics and payloads the broker may deliver to on_message.
Topics == { <<"devices">>, <<"devices", "light">>,
            <<"devices", "light", "l1", "control">> }
Payloads == {"json", "not_json", "not_utf8"}

VARIABLES
    is_running,         \* Dev -> BOOLEAN                self.is_running
    thread,             \* Dev -> self.thread
    is_on,              \* Dev -> BOOLEAN                SmartSwitch.is_on
    power_consumption,  \* Dev -> Nat (1/100 W)          SmartSwitch.power_consumption
    tdev,               \* Threads -> Dev or NoDev       the Device whose _run the thread executes
    tpc,                \* Threads -> position in _run
    tret,               \* Threads -> what the publish call of the current tick returned
    failures,           \* exceptions raised in ticks so far
    devices,            \* Seq(Dev)                      manager.devices
    conn,               \* state of the client's connection
    loop,               \* BOOLEAN                       network loop thread running
    subscribed,         \* BOOLEAN                       devices/+/+/control subscribed
    handled,            \* outcome of the latest on_message call
    ctl                 \* the control thread: the call in progress or just returned,
                        \* and the line of main() it is at (NotMain when the
                        \* calls are not made by main)

devVars == <<is_running, thread, is_on, power_consumption>>
thrVars == <<tdev, tpc, tret, failures>>
netVars == <<conn, loop, subscribed, handled>>
vars == <<is_running, thread, is_on, power_consumption,
          tdev, tpc, tret, failures, devices, conn, loop, subscribed, handled, ctl>>

\* ----------------------------------------------------------------- helpers
NotMain == "none"

\* A main() that goes on to register and start Devices after a failed
\* connect(): the return of line 251 is missing.
FallsThrough == "266"

\* Lines 249-251: when connect() returns False main() returns.
AfterFailedConnect == "251"

\* main(), lines 249-283: the line main() is at once the call made at line m
\* has returned (rv is what connect() returned): connect, the registration of
\* the one Device of the list, start_all_devices followed by the sleep loop,
\* and in the handler stop_all_devices, disconnect and the end of main().
MainAfter(m, rv) ==
    CASE m = "249" -> IF rv THEN "266" ELSE AfterFailedConnect
      [] m = "266" -> "270"
      [] m = "270" -> "277"
      [] m = "281" -> "282"
      [] m = "282" -> "283"
      [] OTHER -> m

\* The control thread between calls, at line m of main().
Between(m) == [op |-> "none", dev |-> NoDev, i |-> 0, pc |-> "ret", rv |-> TRUE, main |-> m]
\* The control thread has returned from a call; connect()'s result is kept.
Returned == Between(MainAfter(ctl.main, TRUE))
ConnectReturned(rv) ==
    [op |-> "connect", dev |-> NoDev, i |-> 0, pc |-> "ret", rv |-> rv,
     main |-> MainAfter(ctl.main, rv)]
\* The control thread is inside call op, at Device d, list position i, step pc.
At(op, d, i, pc) ==
    [op |-> op, dev |-> d, i |-> i, pc |-> pc, rv |-> TRUE, main |-> ctl.main]

\* The control thread is between calls.
Idle == ctl.pc = "ret"

Unborn == {t \in Threads : tpc[t] = "unborn"}
\* A thread that has been started and has not left _run.
Alive(t) == tpc[t] # "unborn"
LoopsOf(d) == {t \in Threads : tdev[t] = d /\ Alive(t)}
NewThread == CHOOSE t \in Unborn : \A u \in Unborn : t <= u

\* The state after construction, the control thread at line m of main().
Begin(m) ==
    /\ is_running = [d \in Dev |-> FALSE]
    /\ thread = [d \in Dev |-> NoThread]
    /\ is_on = [d \in Dev |-> FALSE]
    /\ power_consumption = [d \in Dev |-> 0]
    /\ tdev = [t \in Threads |-> NoDev]
    /\ tpc = [t \in Threads |-> "unborn"]
    /\ tret = [t \in Threads |-> "none"]
    /\ failures = 0
    /\ devices = <<>>
    /\ conn = "new"
    /\ loop = FALSE
    /\ subscribed = FALSE
    /\ handled = "none"
    /\ ctl = Between(m)

\* The objects are used by a caller other than main().
Init == Begin(NotMain)

\* ------------------------------------------------- VirtualDevice.start/stop
\* start(), line 33: the flag is set before the Thread object exists.
StartSetFlag(d) ==
    is_running' = [is_running EXCEPT ![d] = TRUE]

\* A start() that creates the Thread and never starts it.
StartWithoutThread(d) ==
    UNCHANGED <<thread, tdev, tpc>>

\* start(), lines 34-36: a new Thread is created, stored in self.thread and
\* started, whatever self.thread and is_running were before the call.
StartSpawn(d) ==
    /\ Unborn # {}
    /\ thread' = [thread EXCEPT ![d] = NewThread]
    /\ tdev' = [tdev EXCEPT ![NewThread] = d]
    /\ tpc' = [tpc EXCEPT ![NewThread] = "check"]

\* stop(), lines 42-43: join() of the Thread self.thread refers to, when there
\* is one; join returns once that thread has left _run.
JoinReturns(d) ==
    thread[d] \in {NoThread, Finished}

\* d.start() is called: line 33 runs.
CallStart(d) ==
    /\ Idle
    /\ Unborn # {}
    /\ StartSetFlag(d)
    /\ ctl' = At("start", d, 0, "spawn")
    /\ UNCHANGED <<thread, is_on, power_consumption, thrVars, devices, netVars>>

\* Lines 34-37 of the start() in progress; start() returns, or start_all_devices
\* goes on with its loop.
Spawn ==
    /\ ctl.pc = "spawn"
    /\ StartSpawn(ctl.dev)
    /\ ctl' = IF ctl.op = "start_all"
                THEN At("start_all", NoDev, ctl.i, "iter")
                ELSE Returned
    /\ UNCHANGED <<is_running, is_on, power_consumption, tret, failures,
                   devices, netVars>>

\* d.stop() is called: line 41 runs, then the caller waits in join().
CallStop(d) ==
    /\ Idle
    /\ is_running' = [is_running EXCEPT ![d] = FALSE]
    /\ ctl' = At("stop", d, 0, "join")
    /\ UNCHANGED <<thread, is_on, power_consumption, thrVars, devices, netVars>>

\* Lines 42-44 of the stop() in progress: join() returns and stop() returns, or
\* stop_all_devices goes on with its loop.
Join ==
    /\ ctl.pc = "join"
    /\ JoinReturns(ctl.dev)
    /\ ctl' = IF ctl.op = "stop_all"
                THEN At("stop_all", NoDev, ctl.i, "iter")
                ELSE Returned
    /\ UNCHANGED <<devVars, thrVars, devices, netVars>>

\* ------------------------------------------------------ VirtualDevice._run
\* A loop body that sleeps the interval before it generates and publishes.
LoopBodySleepsFirst == "sleep"

\* Where the body of the while statement starts (line 50).
LoopBodyFirst == "generate"

\* A loop that never tests the flag: while True.
WhileTrue(d) == LoopBodyFirst

\* Line 48: the flag is tested before every iteration.
WhileTest(d) == IF is_running[d] THEN LoopBodyFirst ELSE "exit"

\* A loop whose try statement encloses the while statement: an exception
\* ends the loop.
ExceptEndsLoop == "exit"

\* Lines 58-60: any Exception raised in the body is logged and the thread
\* sleeps one second.
ExceptTarget == "backoff"

\* The thread goes on at `to`; at "exit" _run returns: the Thread is no longer
\* alive, and a self.thread that refers to it refers to a finished Thread.
ThreadGoes(t, to) ==
    IF to = "exit"
      THEN /\ tpc' = [tpc EXCEPT ![t] = "unborn"]
           /\ tdev' = [tdev EXCEPT ![t] = NoDev]
           /\ thread' = [d \in Dev |-> IF thread[d] = t THEN Finished ELSE thread[d]]
      ELSE /\ tpc' = [tpc EXCEPT ![t] = to]
           /\ UNCHANGED <<tdev, thread>>

\* SmartSwitch.generate_data, lines 142-149: the state after one call that
\* runs from its first statement to its last without another thread of the
\* Device in between (Toggle to ReadPower below take it statement by
\* statement).
SwitchStates(d) ==
    { s \in [on : BOOLEAN, power : PowerDraws \cup {0}] :
        /\ s.on \in {is_on[d], ~is_on[d]}
        /\ IF s.on THEN s.power \in PowerDraws ELSE s.power = 0 }

\* generate_data of the Device's type: only the smart switch keeps state.
GenerateData(d) ==
    IF device_type[d] = "smart_switch"
      THEN \E s \in SwitchStates(d) :
              /\ is_on' = [is_on EXCEPT ![d] = s.on]
              /\ power_consumption' = [power_consumption EXCEPT ![d] = s.power]
      ELSE UNCHANGED <<is_on, power_consumption>>

\* Line 48.
Check(t) ==
    /\ tpc[t] = "check"
    /\ ThreadGoes(t, WhileTest(tdev[t]))
    /\ UNCHANGED <<is_running, is_on, power_consumption, tret, failures,
                   devices, netVars, ctl>>

\* Lines 50-52: generate_data, the topic and json.dumps.
Generate(t) ==
    /\ tpc[t] = "generate"
    /\ GenerateData(tdev[t])
    /\ ThreadGoes(t, "publish")
    /\ UNCHANGED <<is_running, tret, failures, devices, netVars, ctl>>

\* A handler that stops the whole fleet on an exception: the flag of every
\* Device is cleared.
GenerateFailsStopsFleet(t) ==
    /\ tpc[t] = "generate"
    /\ failures < MaxFailures
    /\ failures' = failures + 1
    /\ is_running' = [d \in Dev |-> FALSE]
    /\ ThreadGoes(t, ExceptTarget)
    /\ UNCHANGED <<is_on, power_consumption, tret, devices, netVars, ctl>>

\* Lines 50-52 raise (before or after generate_data changed the state) and the
\* handler of line 58 runs.
GenerateFails(t) ==
    /\ tpc[t] = "generate"
    /\ failures < MaxFailures
    /\ failures' = failures + 1
    /\ GenerateData(tdev[t]) \/ UNCHANGED <<is_on, power_consumption>>
    /\ ThreadGoes(t, ExceptTarget)
    /\ UNCHANGED <<is_running, tret, devices, netVars, ctl>>

\* What client.publish returns (line 54; the value is discarded): the message
\* is accepted on a connected client, refused with an error code otherwise.
PublishResult == IF conn = "connected" THEN "ok" ELSE "no_conn"

\* Lines 54-55: the publish call returns, whatever its result, and the thread
\* goes to the interval sleep.
Publish(t) ==
    /\ tpc[t] = "publish"
    /\ tret' = [tret EXCEPT ![t] = PublishResult]
    /\ ThreadGoes(t, "sleep")
    /\ UNCHANGED <<is_running, is_on, power_consumption, failures, devices, netVars, ctl>>

\* Line 54 raises and the handler of line 58 runs.
PublishRaises(t) ==
    /\ tpc[t] = "publish"
    /\ failures < MaxFailures
    /\ failures' = failures + 1
    /\ ThreadGoes(t, ExceptTarget)
    /\ UNCHANGED <<is_running, is_on, power_consumption, tret, devices, netVars, ctl>>

\* An interval sleep followed at once by the next generation, the flag being
\* tested only after a backoff.
SleepSkipsTest(t) ==
    /\ tpc[t] = "sleep"
    /\ tret' = [tret EXCEPT ![t] = "none"]
    /\ ThreadGoes(t, LoopBodyFirst)
    /\ UNCHANGED <<is_running, is_on, power_consumption, failures, devices, netVars, ctl>>

\* Line 57: time.sleep(self.publish_interval) returns; the tick is over.
Sleep(t) ==
    /\ tpc[t] = "sleep"
    /\ tret' = [tret EXCEPT ![t] = "none"]
    /\ ThreadGoes(t, "check")
    /\ UNCHANGED <<is_running, is_on, power_consumption, failures, devices, netVars, ctl>>

\* Line 60: time.sleep(1) returns.
Backoff(t) ==
    /\ tpc[t] = "backoff"
    /\ ThreadGoes(t, "check")
    /\ UNCHANGED <<is_running, is_on, power_consumption, tret, failures,
                   devices, netVars, ctl>>

ThreadStep(t) ==
    \/ Check(t) \/ Generate(t) \/ GenerateFails(t)
    \/ Publish(t) \/ PublishRaises(t) \/ Sleep(t) \/ Backoff(t)

\* ---------------------------- SmartSwitch.generate_data, statement by statement
\* The threads of one Device share self.is_on and self.power_consumption; when
\* more than one of them is inside generate_data the statements interleave.
\* Lines 142-143: the state is toggled, or not.
Toggle(t) ==
    /\ tpc[t] = "generate"
    /\ device_type[tdev[t]] = "smart_switch"
    /\ \E on \in {is_on[tdev[t]], ~is_on[tdev[t]]} :
          is_on' = [is_on EXCEPT ![tdev[t]] = on]
    /\ ThreadGoes(t, "set_power")
    /\ UNCHANGED <<is_running, power_consumption, tret, failures, devices, netVars, ctl>>

\* Lines 146-149: the power draw is set from is_on.
SetPower(t) ==
    /\ tpc[t] = "set_power"
    /\ \E p \in (IF is_on[tdev[t]] THEN PowerDraws ELSE {0}) :
          power_consumption' = [power_consumption EXCEPT ![tdev[t]] = p]
    /\ ThreadGoes(t, "read_state")
    /\ UNCHANGED <<is_running, is_on, tret, failures, devices, netVars, ctl>>

\* Line 156: "ON" if self.is_on else "OFF" is put into the reading.
ReadState(t) ==
    /\ tpc[t] = "read_state"
    /\ ThreadGoes(t, IF is_on[tdev[t]] THEN "read_ON" ELSE "read_OFF")
    /\ UNCHANGED <<is_running, is_on, power_consumption, tret, failures,
                   devices, netVars, ctl>>

\* Line 157: self.power_consumption is put into the reading, the reading is
\* returned and serialised (lines 51-52).
ReadPower(t) ==
    /\ tpc[t] \in {"read_ON", "read_OFF"}
    /\ ThreadGoes(t, "publish")
    /\ UNCHANGED <<is_running, is_on, power_consumption, tret, failures,
                   devices, netVars, ctl>>

\* The "data" of the reading that line 157 completes (lines 155-158).
Reading(t) ==
    [switch_state |-> IF tpc[t] = "read_ON" THEN "ON" ELSE "OFF",
     power_consumption |-> power_consumption[tdev[t]]]


\* ------------------------------------------------ MQTTVirtualDeviceManager
\* connect(), lines 206-209: client.connect returns, the network loop is
\* started and True is returned. The broker's answer to the connection request
\* arrives later, in on_connect.
Connect ==
    /\ Idle
    /\ conn' = "pending"
    /\ loop' = TRUE
    /\ subscribed' = FALSE
    /\ ctl' = ConnectReturned(TRUE)
    /\ UNCHANGED <<devVars, thrVars, devices, handled>>

\* connect(), lines 210-212: client.connect raises and False is returned.
ConnectRaises ==
    /\ Idle
    /\ ctl' = ConnectReturned(FALSE)
    /\ UNCHANGED <<devVars, thrVars, devices, netVars>>

\* add_device(), lines 216-217: the Device is appended.
AddDevice(d) ==
    /\ Idle
    /\ Len(devices) < MaxDevices
    /\ devices' = Append(devices, d)
    /\ ctl' = Returned
    /\ UNCHANGED <<devVars, thrVars, netVars>>

\* start_all_devices() is called.
CallStartAll ==
    /\ Idle
    /\ Cardinality(Unborn) >= Len(devices)
    /\ ctl' = At("start_all", NoDev, 0, "iter")
    /\ UNCHANGED <<devVars, thrVars, devices, netVars>>

\* stop_all_devices() is called.
CallStopAll ==
    /\ Idle
    /\ ctl' = At("stop_all", NoDev, 0, "iter")
    /\ UNCHANGED <<devVars, thrVars, devices, netVars>>

\* Lines 221-223 and 227-229, the for statement: the next Device of the list
\* is taken and the first line of its start() or stop() runs; after the last
\* one the call returns.
Iter ==
    /\ ctl.pc = "iter"
    /\ IF ctl.i < Len(devices)
         THEN LET d == devices[ctl.i + 1] IN
              IF ctl.op = "start_all"
                THEN /\ StartSetFlag(d)
                     /\ ctl' = At("start_all", d, ctl.i + 1, "spawn")
                ELSE /\ is_running' = [is_running EXCEPT ![d] = FALSE]
                     /\ ctl' = At("stop_all", d, ctl.i + 1, "join")
         ELSE /\ ctl' = Returned
              /\ UNCHANGED is_running
    /\ UNCHANGED <<thread, is_on, power_consumption, thrVars, devices, netVars>>

\* disconnect(), lines 233-235: the network loop is stopped and the
\* connection closed, whatever the Devices are doing.
Disconnect ==
    /\ Idle
    /\ loop' = FALSE
    /\ conn' = "closed"
    /\ subscribed' = FALSE
    /\ ctl' = Returned
    /\ UNCHANGED <<devVars, thrVars, devices, handled>>

\* ------------------------------------------------------------------ main
\* Line 249: connect() is called; line 255 constructs the temperature sensor.
MainConnect ==
    /\ ctl.main = "249"
    /\ Connect \/ ConnectRaises

\* Lines 265-266: the one Device of the list is registered.
MainAddDevice ==
    /\ ctl.main = "266"
    /\ AddDevice("d2")

\* Line 270.
MainStartAll ==
    /\ ctl.main = "270"
    /\ CallStartAll

\* Line 281.
MainStopAll ==
    /\ ctl.main = "281"
    /\ CallStopAll

\* Line 282.
MainDisconnect ==
    /\ ctl.main = "282"
    /\ Disconnect

\* The lines main() can be interrupted at, and those inside the try statement
\* (lines 268-277).
MainLines == {"249", "266", "270", "277", "281", "282"}
TryLines == {"270", "277"}

\* The process ends with main(): the threads of the Devices and the network
\* loop thread are daemon threads.
ProcessExit ==
    /\ tpc' = [t \in Threads |-> "unborn"]
    /\ tdev' = [t \in Threads |-> NoDev]
    /\ tret' = [t \in Threads |-> "none"]
    /\ thread' = [d \in Dev |-> IF thread[d] = NoThread THEN NoThread ELSE Finished]
    /\ loop' = FALSE
    /\ subscribed' = FALSE
    /\ UNCHANGED <<is_running, is_on, power_consumption, failures, devices, conn, handled>>

\* Ctrl+C: KeyboardInterrupt is raised in the main thread. Inside the try
\* statement the call in progress is abandoned and the handler of line 279
\* runs; anywhere else the exception leaves main() and the process ends.
KeyboardInterrupt ==
    /\ ctl.main \in MainLines
    /\ IF ctl.main \in TryLines
         THEN /\ ctl' = Between("281")
              /\ UNCHANGED <<devVars, thrVars, devices, netVars>>
         ELSE /\ ctl' = Between("killed")
              /\ ProcessExit

\* ------------------------------------------------------- client callbacks
\* Result codes the broker may answer a connection request with: accepted,
\* not authorised.
ResultCodes == {0, 5}

\* on_connect, lines 175-181, called by the network loop with the broker's
\* answer: rc 0 subscribes to the control pattern, any other rc is logged.
OnConnect(rc) ==
    /\ loop
    /\ conn \in {"pending", "lost"}
    /\ IF rc = 0
         THEN conn' = "connected" /\ subscribed' = TRUE
         ELSE conn' = "refused" /\ subscribed' = FALSE
    /\ UNCHANGED <<devVars, thrVars, devices, loop, handled, ctl>>

\* on_disconnect, lines 194-195: the connection was lost; it is logged (the
\* network loop then asks for the connection again).
OnDisconnect ==
    /\ loop
    /\ conn = "connected"
    /\ conn' = "lost"
    /\ subscribed' = FALSE
    /\ UNCHANGED <<devVars, thrVars, devices, loop, handled, ctl>>

\* Lines 185-188: the exception the body of on_message raises on a message.
\* topic_parts[1] and topic_parts[2] need three segments; the payload is
\* decoded and then parsed.
MessageError(topic, payload) ==
    IF Len(topic) < 3 THEN "IndexError"
    ELSE IF payload = "not_utf8" THEN "UnicodeDecodeError"
    ELSE IF payload = "not_json" THEN "JSONDecodeError"
    ELSE "none"

\* A handler that says except ValueError: the decoding and parsing errors are
\* caught, the IndexError of a short topic is not.
CaughtValueError(exc) == exc \in {"UnicodeDecodeError", "JSONDecodeError"}

\* Line 191, except Exception: every one of these is caught.
Caught(exc) == exc \in {"IndexError", "UnicodeDecodeError", "JSONDecodeError"}

\* What a call of on_message ends with: the command logged, the error logged,
\* or an exception leaving the handler.
OnMessageResult(topic, payload) ==
    LET exc == MessageError(topic, payload) IN
    IF exc = "none" THEN "command"
    ELSE IF Caught(exc) THEN "error"
    ELSE "escaped"

\* An on_message that carries out the command: it toggles a smart switch.
OnMessageSwitches(topic, payload) ==
    /\ is_on' = [d \in Dev |-> IF device_type[d] = "smart_switch" THEN ~is_on[d] ELSE is_on[d]]
    /\ UNCHANGED <<is_running, thread, power_consumption, thrVars, devices>>

\* What on_message does to the Devices and the registry: nothing (line 190 is
\* a comment).
OnMessageEffect(topic, payload) ==
    UNCHANGED <<devVars, thrVars, devices>>

\* on_message, lines 183-192, called by the network loop for a message on a
\* subscribed topic.
OnMessage(topic, payload) ==
    /\ loop
    /\ subscribed
    /\ handled' = OnMessageResult(topic, payload)
    /\ OnMessageEffect(topic, payload)
    /\ UNCHANGED <<conn, loop, subscribed, ctl>>

\* ------------------------------------------------------------ specifications
\* Steps of the threads running _run.
Loops ==
    \/ \E t \in Threads : Check(t)
    \/ \E t \in Threads : Generate(t)
    \/ \E t \in Threads : Publish(t)
    \/ \E t \in Threads : Sleep(t)

Failing ==
    \/ \E t \in Threads : GenerateFails(t)
    \/ \E t \in Threads : PublishRaises(t)
    \/ \E t \in Threads : Backoff(t)

\* Devices used directly: start() and stop() in any order on a client that is
\* connected, or not.
Next ==
    \/ \E d \in Dev : CallStart(d)
    \/ Spawn
    \/ \E d \in Dev : CallStop(d)
    \/ Join
    \/ Loops
    \/ Failing
    \/ Connect
    \/ \E rc \in ResultCodes : OnConnect(rc)

Spec == Init /\ [][Next]_vars

\* The manager's operations in any order, and the network loop's callbacks.
NextMgr ==
    \/ Connect
    \/ ConnectRaises
    \/ \E d \in Dev : AddDevice(d)
    \/ CallStartAll
    \/ CallStopAll
    \/ Iter
    \/ Spawn
    \/ Join
    \/ Disconnect
    \/ \E rc \in ResultCodes : OnConnect(rc)
    \/ OnDisconnect
    \/ \E topic \in Topics, payload \in Payloads : OnMessage(topic, payload)
    \/ Loops

SpecMgr == Init /\ [][NextMgr]_vars


\* One Device, the smart switch, started and stopped in any order on a client
\* that is never connected; the threads running _run are scheduled and their
\* calls and sleeps return, and the caller blocked in join() goes on once the
\* joined thread has exited.
NextDev ==
    \/ CallStart("d1")
    \/ Spawn
    \/ CallStop("d1")
    \/ Join
    \/ Loops
    \/ Failing

FairSpec ==
    /\ Init /\ [][NextDev]_vars
    /\ \A t \in Threads : WF_vars(ThreadStep(t))
    /\ WF_vars(Join)

\* The registry filled, started and stopped as a whole in any order on a
\* client that is never connected, with ticks that raise.
NextFleet ==
    \/ \E d \in Dev : AddDevice(d)
    \/ CallStartAll
    \/ CallStopAll
    \/ Iter
    \/ Spawn
    \/ Join
    \/ Loops
    \/ Failing

SpecFleet == Init /\ [][NextFleet]_vars

\* main() from its first line, interrupted at any line, with the network
\* loop's callbacks.
InitMain == Begin("249")

NextMain ==
    \/ MainConnect
    \/ MainAddDevice
    \/ MainStartAll
    \/ Iter
    \/ Spawn
    \/ KeyboardInterrupt
    \/ MainStopAll
    \/ Join
    \/ MainDisconnect
    \/ \E rc \in ResultCodes : OnConnect(rc)
    \/ OnDisconnect
    \/ \E topic \in Topics, payload \in Payloads : OnMessage(topic, payload)
    \/ Loops

SpecMain == InitMain /\ [][NextMain]_vars

\* The smart switch started and stopped in any order, its generate_data taken
\* statement by statement.
NextSwitch ==
    \/ CallStart("d1")
    \/ Spawn
    \/ CallStop("d1")
    \/ Join
    \/ \E t \in Threads : Check(t)
    \/ \E t \in Threads : Toggle(t)
    \/ \E t \in Threads : SetPower(t)
    \/ \E t \in Threads : ReadState(t)
    \/ \E t \in Threads : ReadPower(t)
    \/ \E t \in Threads : Publish(t)
    \/ \E t \in Threads : Sleep(t)

SpecSwitch == Init /\ [][NextSwitch]_vars

\* ------------------------------------------------------------------ claims
\* stop() on d has returned and start() has not been called on d since (or d
\* was never started).
Stopped(d) == ~is_running[d] /\ ~(ctl.pc = "join" /\ ctl.dev = d)

\* start() on d is between setting the flag and starting the thread.
Starting(d) == ctl.pc = "spawn" /\ ctl.dev = d

\* C1: at every reachable state at most one thread running _run exists for a
\* Device, whatever start() and stop() calls were made.
C1_AtMostOneLoop ==
    \A d \in Dev : Cardinality(LoopsOf(d)) <= 1

\* C2: once stop() on a Device has returned, and until start() is called on
\* it again, every thread running the Device's _run has exited (so that it
\* makes no further publish call).
C2_StopWaitsForLoop ==
    \A d \in Dev : Stopped(d) => LoopsOf(d) = {}

\* C3: when stop_all_devices returns, no registered Device has a thread still
\* running _run.
C3_StopAllWaitsForAll ==
    [][ (ctl.op = "stop_all" /\ ctl.pc = "iter" /\ ctl'.pc = "ret")
          => \A k \in 1..Len(devices) : LoopsOf(devices[k])' = {} ]_vars

\* C4: an exception raised in a tick never ends the loop: a thread leaves _run
\* only at the while test and only when is_running is false, and after a
\* failed tick the thread reaches a publish call again unless is_running
\* became false.
C4_FailureNeverEndsLoop ==
    /\ [][ \A t \in Threads :
             (Alive(t) /\ ~Alive(t)') => (tpc[t] = "check" /\ ~is_running[tdev[t]]) ]_vars
    /\ \A t \in Threads :
          (tpc[t] = "backoff")
             ~> (IF Alive(t) THEN tpc[t] = "publish" \/ ~is_running[tdev[t]] ELSE TRUE)

\* C4 witness: a thread is in the backoff sleep after a failed tick while its
\* Device is running.
C4_Witness ==
    \E t \in Threads : tpc[t] = "backoff" /\ is_running[tdev[t]] /\ failures > 0

\* C5: the ids of the Devices in the registry are pairwise distinct.
C5_RegistryIdsDistinct ==
    \A i, j \in 1..Len(devices) :
        i # j => device_id[devices[i]] # device_id[devices[j]]

\* C6: no Device completes a publish call on a client that disconnect() has
\* closed.
C6_NoPublishAfterDisconnect ==
    [][ \A t \in Threads :
          (tpc[t] = "publish" /\ tpc'[t] = "sleep") => conn # "closed" ]_vars

\* C7: when connect() has returned True, the broker has not refused the
\* connection (a refusal is reported as failure, and after success the
\* control subscription is or will be registered).
C7_ConnectReportsRejection ==
    ctl = ConnectReturned(TRUE) => conn # "refused"

C9_OnMessageContained ==
    /\ [](handled # "escaped")
    /\ [][ handled' # handled => UNCHANGED <<devVars, thrVars, devices>> ]_vars

\* C9 witness: a malformed message was handled while a registered Device's
\* loop was running.
C9_Witness ==
    /\ handled = "error"
    /\ \E k \in 1..Len(devices) : is_running[devices[k]] /\ LoopsOf(devices[k]) # {}

\* C10: a thread in the interval sleep has made the publish call of its tick
\* (the first publish precedes the first sleep), and on a connected client
\* that call published the reading.
C10_PublishBeforeSleep ==
    /\ [](\A t \in Threads : tpc[t] = "sleep" => tret[t] \in {"ok", "no_conn"})
    /\ [][ \A t \in Threads :
             (tpc[t] = "publish" /\ tpc'[t] = "sleep" /\ conn = "connected")
                => tret'[t] = "ok" ]_vars

\* C10 witness: a thread sleeps the interval after publishing a reading on a
\* connected client.
C10_Witness ==
    \E t \in Threads : tpc[t] = "sleep" /\ tret[t] = "ok" /\ conn = "connected"

\* A thread is inside generate_data (lines 50-52 of _run).
Generating(t) == tpc[t] \in {"generate", "set_power", "read_state", "read_ON", "read_OFF"}

\* C11: every reading of a smart switch reports power_consumption 0 with
\* switch_state OFF and a power_consumption within [5, 100] W with switch_state
\* ON, and is_on changes only in a generation step of the switch.
C11_ReadingConsistent ==
    /\ [][ \A t \in Threads :
             (tpc[t] \in {"read_ON", "read_OFF"} /\ tpc'[t] = "publish")
                => IF Reading(t).switch_state = "OFF"
                     THEN Reading(t).power_consumption = 0
                     ELSE /\ Reading(t).power_consumption >= 500
                          /\ Reading(t).power_consumption <= 10000 ]_vars
    /\ [][ \A d \in Dev :
             is_on'[d] # is_on[d]
                => \E t \in Threads : tdev[t] = d /\ Generating(t) ]_vars

\* C12: a tick whose publish call fails ends in the one-second backoff and
\* not in the interval sleep: a thread in the interval sleep has made a
\* publish call that succeeded.
C12_FailedPublishBacksOff ==
    \A t \in Threads : tpc[t] = "sleep" => tret[t] = "ok"

\* C13: within one Device the ticks are sequential: at no time are two
\* threads of the same Device in the generation or publish step of a tick.
C13_TicksSequential ==
    \A d \in Dev :
        Cardinality({t \in LoopsOf(d) : Generating(t) \/ tpc[t] = "publish"}) <= 1

\* C14: the loop comes back to the while test after the interval sleep and
\* after the backoff sleep alike, so a stop() that has cleared the flag and
\* waits in join() eventually returns, the joined thread having left _run.
C14_StopReturns ==
    /\ [][ \A t \in Threads :
             (tpc[t] \in {"sleep", "backoff"} /\ tpc'[t] # tpc[t])
                => tpc'[t] = "check" ]_vars
    /\ \A d \in Dev :
          (ctl.pc = "join" /\ ctl.dev = d)
             ~> (ctl.pc = "ret" /\ thread[d] \in {NoThread, Finished})

\* C14 witness: stop() waits in join() while the joined thread is in the
\* backoff sleep after a failed tick.
C14_Witness ==
    \E d \in Dev :
        /\ ctl.pc = "join" /\ ctl.dev = d /\ ~is_running[d]
        /\ thread[d] \in Threads
        /\ tpc[thread[d]] = "backoff"

\* stop() on d has cleared the flag and waits in join() (line 43).
Joining(d) == ctl.pc = "join" /\ ctl.dev = d

\* Publish calls and sleeps a thread can still complete before it is at the
\* while test again.
PublishesLeft(t) == IF Generating(t) \/ tpc[t] = "publish" THEN 1 ELSE 0
SleepsLeft(t) == IF tpc[t] \in {"check", "unborn"} THEN 0 ELSE 1

\* C15: while stop() waits, a loop of the Device makes at most one more
\* publish call and completes at most one more sleep before it exits: what is
\* left of either never grows, a publish call uses up the one publish call
\* left and a completed sleep the one sleep left.
C15_StopWaitBounded ==
    [][ \A t \in Threads :
          (Alive(t) /\ Joining(tdev[t]))
             => /\ PublishesLeft(t)' <= PublishesLeft(t)
                /\ SleepsLeft(t)' <= SleepsLeft(t)
                /\ (tpc[t] = "publish" /\ tpc'[t] # "publish") => PublishesLeft(t)' = 0
                /\ (tpc[t] \in {"sleep", "backoff"} /\ tpc'[t] # tpc[t]) => SleepsLeft(t)' = 0
      ]_vars

\* C15 witness: stop() waits in join() while the joined thread is about to
\* make the publish call of the tick it was in.
C15_Witness ==
    \E d \in Dev :
        /\ Joining(d) /\ ~is_running[d]
        /\ thread[d] \in Threads
        /\ tpc[thread[d]] = "publish"

\* C16: the internal simulation state of a Device (is_on, power_consumption)
\* changes only in a step in which a thread of that Device's own loop is in
\* generate_data; no other Device's loop, no manager operation and no client
\* callback changes it.
C16_OnlyOwnGenerationWrites ==
    [][ \A d \in Dev :
          (is_on'[d] # is_on[d] \/ power_consumption'[d] # power_consumption[d])
             => \E t \in Threads :
                   tdev[t] = d /\ Generating(t) /\ tpc'[t] # tpc[t] ]_vars

\* C16 witness: the registered smart switch is on and draws power while the
\* loop of another Device runs and a control message has been handled.
C16_Witness ==
    /\ is_on["d1"] /\ power_consumption["d1"] \in PowerDraws
    /\ \E k \in 1..Len(devices) : devices[k] = "d1"
    /\ LoopsOf("d2") # {}
    /\ handled = "command"

\* C17: the step in which a tick of one Device fails moves the failing thread
\* only: every running flag, every other thread (of another Device or of the
\* same one) and the registry are as before.
C17_FailureContained ==
    [][ failures' # failures
          => /\ is_running' = is_running
             /\ devices' = devices
             /\ \E t \in Threads :
                   /\ tpc[t] \in {"generate", "publish"}
                   /\ \A u \in Threads \ {t} :
                         tpc'[u] = tpc[u] /\ tdev'[u] = tdev[u] /\ tret'[u] = tret[u] ]_vars

\* C17 witness: a tick of a registered Device has failed and its thread is in
\* the backoff, while the thread of another registered, running Device is in
\* its interval sleep.
C17_Witness ==
    \E t, u \in Threads :
        /\ failures > 0 /\ tpc[t] = "backoff" /\ tpc[u] = "sleep"
        /\ tdev[t] # tdev[u] /\ is_running[tdev[u]]
        /\ \E j, k \in 1..Len(devices) : devices[j] = tdev[t] /\ devices[k] = tdev[u]

\* C18: when start() is called again on a Device after stop() has returned
\* (the thread stop() joined has left _run), the start leaves exactly one
\* thread running the Device's _run, at the while test with is_running true:
\* no earlier thread is still alive to be revived by the flag.
C18_RestartOneLoop ==
    [][ \A d \in Dev :
          (Starting(d) /\ thread[d] = Finished /\ ~Starting(d)')
             => /\ thread'[d] \in Threads
                /\ LoopsOf(d)' = {thread'[d]}
                /\ tpc'[thread'[d]] = "check" /\ is_running'[d] ]_vars

\* C19: start_all_devices and stop_all_devices take the Devices of the
\* registry one at a time in insertion order, changing the flag of the Device
\* taken only, and stop_all_devices clears the flag of the Device at position
\* k+1 only after the loop of the Device at position k has exited.
C19_OneAtATimeInOrder ==
    [][ (ctl.pc = "iter" /\ ctl'.pc \in {"spawn", "join"})
          => /\ ctl'.i = ctl.i + 1
             /\ ctl'.dev = devices[ctl'.i]
             /\ \A d \in Dev : is_running'[d] # is_running[d] => d = ctl'.dev
             /\ (ctl.op = "stop_all" /\ ctl.i >= 1) => LoopsOf(devices[ctl.i]) = {} ]_vars

\* C20: in main() no Device is registered, flagged running or given a thread
\* (so that no publish call is made) unless connect() has returned True; when
\* connect() returns False main() is at its return statement and takes no
\* further step; and disconnect() is called only from line 282, after the
\* stop_all_devices() of line 281 has returned with every Device stopped.
C20_MainGuardsAndOrder ==
    /\ [](conn = "new"
            => /\ devices = <<>>
               /\ \A d \in Dev : ~is_running[d] /\ thread[d] = NoThread
               /\ \A t \in Threads : ~Alive(t) /\ tret[t] = "none")
    /\ [](ctl.main = "251" => conn = "new" /\ ctl.op = "connect" /\ ~ctl.rv)
    /\ []((ctl.op = "connect" /\ ~ctl.rv) => ctl.main = "251")
    /\ [][ctl.main # "251"]_vars
    /\ [][ (conn' = "closed" /\ conn # "closed")
             => /\ ctl.main = "282"
                /\ \A d \in Dev : ~is_running[d] /\ LoopsOf(d) = {} ]_vars
    /\ [][ (ctl'.main = "282" /\ ctl.main # "282")
             => ctl.main = "281" /\ ctl.op = "stop_all" ]_vars

\* C20 witness: main() has ended after an interrupt: the Device it had started
\* was stopped and its thread has finished, and the connection is closed.
C20_Witness ==
    /\ ctl.main = "283"
    /\ conn = "closed"
    /\ devices = <<"d2">>
    /\ thread["d2"] = Finished

====
